---- MODULE Spec2Model ----
(***************************************************************************)
(* Model of the event manager of src/manager.go: registration (On),        *)
(* dispatch (Fire, FireEvent), the named-event catalog and the scratch     *)
(* event pool.                                                             *)
(*                                                                         *)
(* An event name is a sequence of one-character strings, so that           *)
(* strings.TrimSpace, the goodNameReg pattern and strings.LastIndexByte    *)
(* are computed character by character, as the code computes them.         *)
(*                                                                         *)
(* BasicEvent and ListenerQueue are declared in files that are not part    *)
(* of src/; their operations (SetName, Fill, reset, Set, Abort, Push,      *)
(* Sort, Items) are modelled from spec.md sections 3, 4.1 and 4.2.         *)
(*                                                                         *)
(* A listener item is [priority, kind, reg]: kind says what the listener's *)
(* Handle does, and reg is the item's rank of registration in its queue,   *)
(* kept so that the order of registration stays visible after a sort.      *)
(* The variable last records the last call made on the manager: its        *)
(* arguments, whether it panicked, and for a fire the event before and     *)
(* after dispatch, the error returned and the listeners called, each with  *)
(* the event as it received it.                                            *)
(*                                                                         *)
(* Spec is the manager called by one caller, one whole call at a time.     *)
(* SpecOverlap is Fire on scratch events with two callers inside Fire at   *)
(* once, one listener call at a time, with the instances told apart.       *)
(***************************************************************************)
EXTENDS Integers, Sequences, FiniteSets, TLC

VARIABLES
    emName,         \* em.name: the manager's name
    listeners,      \* em.listeners: name -> ListenerQueue (sequence of items)
    listenedNames,  \* em.listenedNames: name -> registration count
    events,         \* em.events: name -> the stored Event instance
    pool,           \* em.pool: the scratch events resting in the pool
    last,           \* observation of the last call: its inputs and its outcome
    flights,        \* caller -> the Fire it is inside of (overlapping fires)
    insts,          \* scratch instance -> its state (overlapping fires)
    idle            \* the scratch instances resting in the pool (overlapping fires)

managerVars == <<emName, listeners, listenedNames, events, pool, last>>
overlapVars == <<flights, insts, idle>>
vars == <<managerVars, overlapVars>>

(***************************************************************************)
(* Bounds                                                                  *)
(***************************************************************************)
\* at most this many listener items are registered at any one time
MaxItems == 2

\* at most this many scratch event instances are ever allocated
MaxInsts == 2

(***************************************************************************)
(* Names                                                                   *)
(***************************************************************************)
\* const Wildcard = "*"
Wildcard == <<"*">>

\* the letters, digits and white space the model's names are written with
Letters == {"a", "r"}
Digits == {"1"}
WhiteSpace == {" "}

\* the character class [\w-.*] of goodNameReg
NameChars == Letters \cup Digits \cup {"_", "-", ".", "*"}

\* goodNameReg.MatchString: ^[a-zA-Z][\w-.*]*$
MatchString(s) ==
    /\ Len(s) >= 1
    /\ s[1] \in Letters
    /\ \A i \in 2..Len(s) : s[i] \in NameChars

RECURSIVE TrimLeft(_)
TrimLeft(s) ==
    IF s # <<>> /\ Head(s) \in WhiteSpace THEN TrimLeft(Tail(s)) ELSE s

RECURSIVE TrimRight(_)
TrimRight(s) ==
    IF s # <<>> /\ s[Len(s)] \in WhiteSpace
    THEN TrimRight(SubSeq(s, 1, Len(s) - 1))
    ELSE s

\* strings.TrimSpace
TrimSpace(s) == TrimRight(TrimLeft(s))

\* goodName without the test of the pattern
goodNamePanicsOnEmptyOnly(name) == TrimSpace(name) = <<>>

\* a goodName that returns the name as it was passed
untrimmedName(name) == name

\* goodName: the trimmed name, panicking when it is empty or fails the pattern
goodNamePanics(name) ==
    LET n == TrimSpace(name) IN n = <<>> \/ ~MatchString(n)

goodName(name) == TrimSpace(name)

\* strings.LastIndexByte(s, c): 0-based index of the last c in s, or -1
LastIndexByte(s, c) ==
    LET at == {i \in 1..Len(s) : s[i] = c}
    IN  IF at = {} THEN -1 ELSE (CHOOSE i \in at : \A j \in at : j <= i) - 1

\* whether FireEvent derives a group name from name: pos > 0 && pos < len(name)
hasGroup(name) ==
    LET pos == LastIndexByte(name, ".") IN pos > 0 /\ pos < Len(name)

\* groupName := name[:pos] + Wildcard
groupName(name) ==
    SubSeq(name, 1, LastIndexByte(name, ".")) \o Wildcard

(***************************************************************************)
(* Events                                                                  *)
(***************************************************************************)
\* &BasicEvent{}: the pool's New, and a reset instance
ZeroEvent == [name |-> <<>>, data |-> {}, aborted |-> FALSE]

\* BasicEvent.SetName
SetName(e, name) == [e EXCEPT !.name = goodName(name)]

\* BasicEvent.Fill(nil, args...): the payload given, if any, becomes the data
Fill(e, args) == IF args = {} THEN e ELSE [e EXCEPT !.data = args]

\* BasicEvent.Set(key, val): overwrites
Set(e, key, val) ==
    [e EXCEPT !.data = {kv \in @ : kv[1] # key} \cup {<<key, val>>}]

\* BasicEvent.Abort(abort)
Abort(e, abort) == [e EXCEPT !.aborted = abort]

\* BasicEvent.reset: name, payload and abort flag cleared
reset(e) == ZeroEvent

(***************************************************************************)
(* Listeners                                                               *)
(***************************************************************************)
\* error values: nil, or the error returned by the listener item reg of queue key
NilErr == [nil |-> TRUE, key |-> <<>>, reg |-> 0]
ErrOf(key, li) == [nil |-> FALSE, key |-> key, reg |-> li.reg]

\* what a listener's Handle does
Kinds == {"set", "err", "abort", "resume", "panic"}

\* Listener.Handle(e) of the item li registered under key: the event as the
\* listener leaves it, and the error it returns
\* ("resume" calls e.Abort(false); "panic" panics before touching the event)
Handle(key, li, e) ==
    CASE li.kind = "set"    -> [e |-> Set(e, "r", "OK"), err |-> NilErr, panicked |-> FALSE]
      [] li.kind = "err"    -> [e |-> e, err |-> ErrOf(key, li), panicked |-> FALSE]
      [] li.kind = "abort"  -> [e |-> Abort(e, TRUE), err |-> NilErr, panicked |-> FALSE]
      [] li.kind = "resume" -> [e |-> Abort(e, FALSE), err |-> NilErr, panicked |-> FALSE]
      [] li.kind = "panic"  -> [e |-> e, err |-> NilErr, panicked |-> TRUE]

(***************************************************************************)
(* ListenerQueue                                                           *)
(***************************************************************************)
\* ListenerQueue.Push: append
Push(lq, li) == Append(lq, li)

RECURSIVE InsertByPriority(_, _)
InsertByPriority(sorted, li) ==
    IF sorted = <<>> THEN <<li>>
    ELSE IF Head(sorted).priority >= li.priority
         THEN <<Head(sorted)>> \o InsertByPriority(Tail(sorted), li)
         ELSE <<li>> \o sorted

\* ListenerQueue.Sort: stable, by descending priority, in place
RECURSIVE Sort(_)
Sort(lq) ==
    IF lq = <<>> THEN <<>>
    ELSE InsertByPriority(Sort(SubSeq(lq, 1, Len(lq) - 1)), lq[Len(lq)])

(***************************************************************************)
(* Dispatch                                                                *)
(***************************************************************************)
\* the queue iterated as it stands, without the call of Sort
unsortedItems(lq) == lq

\* lq.Sort().Items(): the queue is sorted in place, then iterated
sortedItems(lq) == Sort(lq)

\* the test without err != nil
stopOnAbortOnly(err, e) == e.aborted

\* the test without e.Aborted()
stopOnErrorOnly(err, e) == ~err.nil

\* err != nil || e.Aborted(): the test made after each listener has run
shouldStop(err, e) == ~err.nil \/ e.aborted

\* a dispatch that tests the abort flag before the first listener
dispatchStartChecked(e) ==
    [e |-> e, err |-> NilErr, calls |-> <<>>, stop |-> e.aborted, panicked |-> FALSE]

\* the state of a dispatch before any listener has run
dispatchStart(e) ==
    [e |-> e, err |-> NilErr, calls |-> <<>>, stop |-> FALSE, panicked |-> FALSE]

\* for _, li := range items { err = li.listener.Handle(e); if ... { return } }
\* each call is recorded with the event as the listener received it; a panic of
\* Handle unwinds the loop and FireEvent
RECURSIVE callQueue(_, _, _)
callQueue(key, items, st) ==
    IF items = <<>> \/ st.stop THEN st
    ELSE LET li == Head(items)
             h == Handle(key, li, st.e)
         IN  callQueue(key, Tail(items),
                 [e |-> h.e,
                  err |-> h.err,
                  calls |-> Append(st.calls, [key |-> key, li |-> li, seen |-> st.e]),
                  stop |-> h.panicked \/ shouldStop(h.err, h.e),
                  panicked |-> h.panicked])

\* one listener group of FireEvent: skipped once dispatch has returned or when
\* the key has no queue
fireQueue(key, r) ==
    IF r.st.stop \/ key \notin DOMAIN r.ls THEN r
    ELSE LET ls1 == [r.ls EXCEPT ![key] = sortedItems(@)]
         IN  [ls |-> ls1, st |-> callQueue(key, ls1[key], r.st)]

\* FireEvent once the name is known to have a queue: the exact-name queue, then
\* the queue of the group name, then the queue of the wildcard
fireGroups(ls, e) ==
    LET name == e.name
        r1 == fireQueue(name, [ls |-> ls, st |-> dispatchStart(e)])
        r2 == IF hasGroup(name) THEN fireQueue(groupName(name), r1) ELSE r1
    IN  fireQueue(Wildcard, r2)

\* FireEvent leaving an empty queue behind for a name that had none
FireEventMakesQueue(ls, e) ==
    IF e.name \notin DOMAIN ls
    THEN [ls |-> [k \in DOMAIN ls \cup {e.name} |->
                     IF k \in DOMAIN ls THEN ls[k] ELSE <<>>],
          st |-> dispatchStart(e)]
    ELSE fireGroups(ls, e)

\* Manager.FireEvent on the listener table ls: the table (queues sorted), the
\* event as the listeners leave it, the error returned and the calls made
FireEvent(ls, e) ==
    IF e.name \notin DOMAIN ls
    THEN [ls |-> ls, st |-> dispatchStart(e)]
    ELSE fireGroups(ls, e)

(***************************************************************************)
(* The scratch event pool                                                  *)
(***************************************************************************)
\* The pool is the set of the states of the instances resting in it: sync.Pool
\* gives no order and may drop any instance at any time, so of several resting
\* instances in the same state one is kept.
\* em.pool.Get(): an instance resting in the pool (pick.new = FALSE), or one
\* made by em.pool.New (pick.new = TRUE)
poolGet(pl, pick) ==
    IF pick.new THEN [e |-> pick.e, pool |-> pl]
    ELSE [e |-> pick.e, pool |-> pl \ {pick.e}]

\* em.pool.New = func() interface{} { return &BasicEvent{} }
poolNew == ZeroEvent

\* what em.pool.Get() may return
Picks(pl) ==
    {[new |-> TRUE, e |-> poolNew]} \cup {[new |-> FALSE, e |-> x] : x \in pl}

\* em.pool.Put(e) without e.reset()
releaseWithoutReset(pl, e) == pl \cup {e}

\* e.reset(); em.pool.Put(e)
release(pl, e) == pl \cup {reset(e)}

\* the catalog never consulted
neverInCatalog(evs, name) == FALSE

\* if e, ok := em.events[name]; ok
inCatalog(evs, name) == name \in DOMAIN evs

\* the result of a Fire that panics in goodName, before anything is touched
firePanic(ls, evs, pl) ==
    [panicked |-> TRUE, why |-> "name", listeners |-> ls, events |-> evs,
     pool |-> pl, err |-> NilErr, calls |-> <<>>, src |-> "none",
     ev0 |-> ZeroEvent, ev1 |-> ZeroEvent]

\* a Fire on a catalog name that first fills the stored event with args
fireCatalogFilled(ls, evs, pl, n, args) ==
    LET e == Fill(evs[n], args)
        r == FireEvent(ls, e)
    IN  [panicked |-> r.st.panicked,
         why |-> IF r.st.panicked THEN "listener" ELSE "",
         listeners |-> r.ls,
         events |-> [evs EXCEPT ![n] = r.st.e], pool |-> pl,
         err |-> r.st.err, calls |-> r.st.calls, src |-> "catalog",
         ev0 |-> e, ev1 |-> r.st.e]

\* if e, ok := em.events[name]; ok { return em.FireEvent(e) }
\* (the stored event is a pointer: what the listeners do to it stays)
fireCatalog(ls, evs, pl, n, args) ==
    LET r == FireEvent(ls, evs[n])
    IN  [panicked |-> r.st.panicked,
         why |-> IF r.st.panicked THEN "listener" ELSE "",
         listeners |-> r.ls,
         events |-> [evs EXCEPT ![n] = r.st.e], pool |-> pl,
         err |-> r.st.err, calls |-> r.st.calls, src |-> "catalog",
         ev0 |-> evs[n], ev1 |-> r.st.e]

\* e := em.pool.Get(); e.SetName(name); e.Fill(nil, args...);
\* err = em.FireEvent(e); e.reset(); em.pool.Put(e)
\* (no defer: a panic of a listener leaves Fire before reset and Put)
fireScratch(ls, evs, pl, pick, n, args) ==
    LET got == poolGet(pl, pick)
        e == Fill(SetName(got.e, n), args)
        r == FireEvent(ls, e)
    IN  [panicked |-> r.st.panicked,
         why |-> IF r.st.panicked THEN "listener" ELSE "",
         listeners |-> r.ls, events |-> evs,
         pool |-> IF r.st.panicked THEN got.pool ELSE release(got.pool, r.st.e),
         err |-> r.st.err, calls |-> r.st.calls,
         src |-> IF pick.new THEN "new" ELSE "pool",
         ev0 |-> e, ev1 |-> r.st.e]

\* Manager.Fire(name, args...)
Fire(ls, evs, pl, pick, name, args) ==
    IF goodNamePanics(name) THEN firePanic(ls, evs, pl)
    ELSE LET n == goodName(name) IN
         IF inCatalog(evs, n)
         THEN fireCatalog(ls, evs, pl, n, args)
         ELSE fireScratch(ls, evs, pl, pick, n, args)

\* a MustFire that also panics when dispatch was aborted
mustFirePanicsOnAbort(r) == r.panicked \/ ~r.err.nil \/ r.ev1.aborted

\* err := em.Fire(name, args...); if err != nil { panic(err) }
\* (a panic inside Fire passes through MustFire)
mustFirePanics(r) == r.panicked \/ ~r.err.nil

(***************************************************************************)
(* Inputs                                                                  *)
(***************************************************************************)
\* the names the calls are made with
NameAR == <<"a", ".", "r">>             \* "a.r": an event of the group "a"
NameBlankAR == <<" ", "a", ".", "r">>   \* " a.r": the same, after a blank
NameAStar == <<"a", "*">>               \* "a*": name[:pos] + Wildcard of "a.r"
NameADotStar == <<"a", ".", "*">>       \* "a.*": the group pattern of the README
NameEmpty == <<>>                       \* ""
NameBlank == <<" ">>                    \* " "
NameDigit == <<"1", "a">>               \* "1a"

\* On(name, listener, priority): listeners of both priorities and of every kind
\* under "a.r", one listener under each other name, a nil listener, and the
\* names goodName refuses
Registrations ==
    ({NameAR} \X {"set"} \X {1, 2})
    \cup ({NameAR} \X {"err", "abort", "resume", "panic"} \X {2})
    \cup ({NameBlankAR, NameAStar, NameADotStar} \X {"set"} \X {1})
    \cup ({NameAR} \X {"nil"} \X {1})
    \cup ({Wildcard, NameEmpty, NameBlank, NameDigit} \X {"set"} \X {1})

\* Fire(name, args...)
Payloads == { {}, {<<"a", 1>>} }
FireCalls ==
    ({NameAR} \X Payloads) \cup ({NameBlankAR, NameDigit} \X {{}})

\* MustFire(name, args...)
MustFireCalls == {NameAR, NameDigit} \X {{}}

\* ClearListeners(name)
ClearNames == {NameAR, NameBlankAR}

\* the events a caller hands to AddEvent: named through SetName, or left unnamed
CatalogEvents == {[ZeroEvent EXCEPT !.name = n] : n \in {NameAR, NameEmpty}}

\* the events a caller hands to FireEvent
CallerEvents == {[name |-> NameAR, data |-> {}, aborted |-> b] : b \in BOOLEAN}

(***************************************************************************)
(* State machine                                                           *)
(***************************************************************************)
NoItem == [priority |-> 0, kind |-> "nil", reg |-> 0]

Idle ==
    [op |-> "NewManager", name |-> <<>>, args |-> {}, li |-> NoItem,
     panicked |-> FALSE, why |-> "", err |-> NilErr, calls |-> <<>>,
     src |-> "none", ev0 |-> ZeroEvent, ev1 |-> ZeroEvent]

\* the callers that can be inside Fire at the same time
Callers == {1, 2}

\* a caller outside Fire
NoFlight ==
    [pc |-> "idle", stage |-> "exact", inst |-> 0, src |-> "none",
     name |-> <<>>, args |-> {}, todo |-> <<>>, calls |-> <<>>, err |-> NilErr]

\* NewManager
Init ==
    /\ emName = "default"
    /\ listeners = <<>>
    /\ listenedNames = <<>>
    /\ events = <<>>
    /\ pool = {}
    /\ last = Idle
    /\ flights = [c \in Callers |-> NoFlight]
    /\ insts = <<>>
    /\ idle = {}

\* the number of listener items registered
RECURSIVE SumLen(_, _)
SumLen(ls, keys) ==
    IF keys = {} THEN 0
    ELSE LET k == CHOOSE x \in keys : TRUE
         IN  Len(ls[k]) + SumLen(ls, keys \ {k})

ItemCount == SumLen(listeners, DOMAIN listeners)

\* em.listeners after On has pushed li under name
onListeners(ls, name, li) ==
    IF name \in DOMAIN ls
    THEN [ls EXCEPT ![name] = Push(@, li)]
    ELSE [k \in DOMAIN ls \cup {name} |->
             IF k = name THEN Push(<<>>, li) ELSE ls[k]]

\* an On that sets the count to 1 whether or not the name has a queue
onListenedNamesSetsOne(ls, ln, name) ==
    [k \in DOMAIN ln \cup {name} |-> IF k = name THEN 1 ELSE ln[k]]

\* em.listenedNames after On has pushed under name
onListenedNames(ls, ln, name) ==
    IF name \in DOMAIN ls
    THEN [k \in DOMAIN ln \cup {name} |->
             IF k = name THEN (IF k \in DOMAIN ln THEN ln[k] ELSE 0) + 1 ELSE ln[k]]
    ELSE [k \in DOMAIN ln \cup {name} |-> IF k = name THEN 1 ELSE ln[k]]

\* Manager.On(name, listener, priority)
On(name, listener, priority) ==
    LET n == goodName(name)
        li == [priority |-> priority, kind |-> listener,
               reg |-> IF n \in DOMAIN listeners THEN Len(listeners[n]) + 1 ELSE 1]
        panics == goodNamePanics(name) \/ listener = "nil"
    IN  /\ panics \/ ItemCount < MaxItems
        /\ listeners' = IF panics THEN listeners ELSE onListeners(listeners, n, li)
        /\ listenedNames' =
              IF panics THEN listenedNames
              ELSE onListenedNames(listeners, listenedNames, n)
        /\ last' = [Idle EXCEPT !.op = "On", !.name = name,
                                !.li = [li EXCEPT !.reg = IF panics THEN 0 ELSE @],
                                !.panicked = panics,
                                !.why = IF goodNamePanics(name) THEN "name"
                                        ELSE IF panics THEN "nil listener" ELSE ""]
        /\ UNCHANGED <<emName, events, pool, overlapVars>>

\* Manager.Fire(name, args...), pick being what em.pool.Get() returns
\* (r is bound by \E so that the call is evaluated once)
DoFire(name, args, pick) ==
    \E r \in {Fire(listeners, events, pool, pick, name, args)} :
        /\ listeners' = r.listeners
        /\ events' = r.events
        /\ pool' = r.pool
        /\ last' = [Idle EXCEPT !.op = "Fire", !.name = name, !.args = args,
                                !.panicked = r.panicked, !.why = r.why,
                                !.err = r.err,
                                !.calls = r.calls, !.src = r.src,
                                !.ev0 = r.ev0, !.ev1 = r.ev1]
        /\ UNCHANGED <<emName, listenedNames, overlapVars>>

\* Manager.MustFire(name, args...)
MustFire(name, args, pick) ==
    \E r \in {Fire(listeners, events, pool, pick, name, args)} :
        /\ listeners' = r.listeners
        /\ events' = r.events
        /\ pool' = r.pool
        /\ last' = [Idle EXCEPT !.op = "MustFire", !.name = name, !.args = args,
                                !.panicked = mustFirePanics(r),
                                !.why = IF r.panicked THEN r.why
                                        ELSE IF mustFirePanics(r) THEN "error"
                                        ELSE "",
                                !.err = r.err,
                                !.calls = r.calls, !.src = r.src,
                                !.ev0 = r.ev0, !.ev1 = r.ev1]
        /\ UNCHANGED <<emName, listenedNames, overlapVars>>

\* Manager.FireEvent(e) on an event the caller has built
DoFireEvent(e) ==
    \E r \in {FireEvent(listeners, e)} :
        /\ listeners' = r.ls
        /\ last' = [Idle EXCEPT !.op = "FireEvent", !.name = e.name,
                                !.panicked = r.st.panicked,
                                !.why = IF r.st.panicked THEN "listener" ELSE "",
                                !.err = r.st.err, !.calls = r.st.calls,
                                !.src = "caller", !.ev0 = e, !.ev1 = r.st.e]
        /\ UNCHANGED <<emName, listenedNames, events, pool, overlapVars>>

\* Manager.HasListeners(name)
HasListeners(ln, name) == name \in DOMAIN ln

\* a map without the key name
Without(f, name) == [k \in DOMAIN f \ {name} |-> f[k]]

\* a ClearListeners that forgets the count and keeps the queue
ClearListenersKeepsQueue(name) ==
    /\ listenedNames' = Without(listenedNames, name)
    /\ last' = [Idle EXCEPT !.op = "ClearListeners", !.name = name,
                            !.src = IF name \in DOMAIN listenedNames
                                    THEN "removed" ELSE "absent"]
    /\ UNCHANGED <<emName, listeners, events, pool, overlapVars>>

\* Manager.ClearListeners(name)
ClearListeners(name) ==
    /\ IF name \in DOMAIN listenedNames
       THEN /\ listenedNames' = Without(listenedNames, name)
            /\ listeners' = Without(listeners, name)
       ELSE UNCHANGED <<listeners, listenedNames>>
    /\ last' = [Idle EXCEPT !.op = "ClearListeners", !.name = name,
                            !.src = IF name \in DOMAIN listenedNames
                                    THEN "removed" ELSE "absent"]
    /\ UNCHANGED <<emName, events, pool, overlapVars>>

\* Manager.AddEvent(e)
AddEvent(e) ==
    LET name == goodName(e.name)
        panics == goodNamePanics(e.name)
    IN  /\ events' =
              IF panics THEN events
              ELSE [k \in DOMAIN events \cup {name} |->
                       IF k = name THEN e ELSE events[k]]
        /\ last' = [Idle EXCEPT !.op = "AddEvent", !.name = e.name, !.ev0 = e,
                                !.panicked = panics,
                                !.why = IF panics THEN "name" ELSE ""]
        /\ UNCHANGED <<emName, listeners, listenedNames, pool, overlapVars>>

\* Manager.DelEvent(name)
DelEvent(name) ==
    /\ events' = Without(events, name)
    /\ last' = [Idle EXCEPT !.op = "DelEvent", !.name = name]
    /\ UNCHANGED <<emName, listeners, listenedNames, pool, overlapVars>>

\* Manager.ClearEvents()
ClearEvents ==
    /\ events' = <<>>
    /\ last' = [Idle EXCEPT !.op = "ClearEvents"]
    /\ UNCHANGED <<emName, listeners, listenedNames, pool, overlapVars>>

\* Manager.Clear()
Clear ==
    /\ emName' = ""
    /\ events' = <<>>
    /\ listeners' = <<>>
    /\ listenedNames' = <<>>
    /\ last' = [Idle EXCEPT !.op = "Clear"]
    /\ UNCHANGED <<pool, overlapVars>>

Next ==
    \/ \E reg \in Registrations : On(reg[1], reg[2], reg[3])
    \/ \E call \in FireCalls, pick \in Picks(pool) :
          DoFire(call[1], call[2], pick)
    \/ \E call \in MustFireCalls, pick \in Picks(pool) :
          MustFire(call[1], call[2], pick)
    \/ \E e \in CallerEvents : DoFireEvent(e)
    \/ \E name \in ClearNames : ClearListeners(name)
    \/ \E e \in CatalogEvents : AddEvent(e)
    \/ DelEvent(NameAR)
    \/ ClearEvents
    \/ Clear

Spec == Init /\ [][Next]_vars

(***************************************************************************)
(* Overlapping fires                                                       *)
(*                                                                         *)
(* Fire on a name that is not in the catalog, taken apart at the points    *)
(* where another Fire can run: between em.pool.Get() and em.pool.Put(e)    *)
(* the caller is inside FireEvent, calling one listener after the other,   *)
(* and a Fire of another caller, or one made by a listener from inside     *)
(* Handle, runs in between.  Scratch events are kept with their identity:  *)
(* insts[id] is the state of instance id, idle the instances in the pool,  *)
(* flights[c] the Fire caller c is in.                                     *)
(***************************************************************************)
NameA == <<"a">>                        \* "a": a name without a group

\* Fire(name, args...) of the overlapping callers
OverlapCalls == {NameAR, NameA} \X Payloads

\* the listener tables the fires run on, as On calls have built them
OverlapTables ==
    { [k \in {NameAR, NameA} |->
          <<[priority |-> 1, kind |-> "set", reg |-> 1]>>],
      [k \in {NameAR} |->
          <<[priority |-> 1, kind |-> "set", reg |-> 1],
            [priority |-> 2, kind |-> "abort", reg |-> 2]>>],
      [k \in {NameAR} |->
          <<[priority |-> 1, kind |-> "set", reg |-> 1],
            [priority |-> 1, kind |-> "panic", reg |-> 2]>>] }

\* NewManager, then the On calls that build one of the tables
InitOverlap ==
    /\ emName = "default"
    /\ listeners \in OverlapTables
    /\ listenedNames = [k \in DOMAIN listeners |-> Len(listeners[k])]
    /\ events = <<>>
    /\ pool = {}
    /\ last = Idle
    /\ flights = [c \in Callers |-> NoFlight]
    /\ insts = <<>>
    /\ idle = {}

\* a pool whose Get leaves the instance it returns in the pool
peekFromPool(free, id) == free

\* em.pool.Get(): the instance returned is no longer in the pool
takeFromPool(free, id) == free \ {id}

\* e := em.pool.Get().(*BasicEvent); e.SetName(name); e.Fill(nil, args...)
\* (id is the instance Get returns: one of the pool, or a new one)
FireBegin(c, name, args, id) ==
    /\ flights[c].pc = "idle"
    /\ ~goodNamePanics(name)
    /\ ~inCatalog(events, goodName(name))
    /\ \/ id \in idle
       \/ id = Len(insts) + 1 /\ id <= MaxInsts
    /\ LET e0 == IF id \in idle THEN insts[id] ELSE poolNew
           e == Fill(SetName(e0, goodName(name)), args)
       IN  insts' = [k \in DOMAIN insts \cup {id} |->
                        IF k = id THEN e ELSE insts[k]]
    /\ idle' = takeFromPool(idle, id)
    /\ flights' = [flights EXCEPT ![c] =
                      [NoFlight EXCEPT !.pc = "enter", !.inst = id,
                                       !.src = IF id \in idle THEN "pool" ELSE "new",
                                       !.name = name, !.args = args]]
    /\ UNCHANGED managerVars

\* the queue a step of FireEvent looks up
stageKey(stage, name) ==
    CASE stage = "exact" -> name
      [] stage = "group" -> groupName(name)
      [] stage = "wild"  -> Wildcard

\* the flight once the listeners of its step are done
nextStage(f) ==
    CASE f.stage = "exact" -> [f EXCEPT !.pc = "enter", !.stage = "group", !.todo = <<>>]
      [] f.stage = "group" -> [f EXCEPT !.pc = "enter", !.stage = "wild", !.todo = <<>>]
      [] f.stage = "wild"  -> [f EXCEPT !.pc = "release", !.todo = <<>>]

\* FireEvent looking up the queue of a step: lq, ok := em.listeners[...];
\* lq.Sort().Items().  Without an exact-name queue FireEvent returns.
FireEnterQueue(c) ==
    LET f == flights[c]
        name == insts[f.inst].name
        key == stageKey(f.stage, name)
    IN  /\ f.pc = "enter"
        /\ IF f.stage = "exact" /\ name \notin DOMAIN listeners
           THEN /\ flights' = [flights EXCEPT ![c] = [f EXCEPT !.pc = "release"]]
                /\ UNCHANGED listeners
           ELSE IF (f.stage = "group" /\ ~hasGroup(name)) \/ key \notin DOMAIN listeners
           THEN /\ flights' = [flights EXCEPT ![c] = nextStage(f)]
                /\ UNCHANGED listeners
           ELSE /\ listeners' = [listeners EXCEPT ![key] = sortedItems(@)]
                /\ flights' = [flights EXCEPT ![c] =
                                  [f EXCEPT !.pc = "call",
                                            !.todo = sortedItems(listeners[key])]]
        /\ UNCHANGED <<emName, listenedNames, events, pool, last, insts, idle>>

\* one turn of the loop of FireEvent: err = li.listener.Handle(e);
\* if err != nil || e.Aborted() { return }.  A panic of Handle leaves Fire
\* with the instance neither reset nor put back.
FireCall(c) ==
    LET f == flights[c]
        e == insts[f.inst]
        key == stageKey(f.stage, e.name)
    IN  /\ f.pc = "call"
        /\ IF f.todo = <<>>
           THEN /\ flights' = [flights EXCEPT ![c] = nextStage(f)]
                /\ UNCHANGED insts
           ELSE \E h \in {Handle(key, Head(f.todo), e)} :
                   /\ insts' = [insts EXCEPT ![f.inst] = h.e]
                   /\ flights' = [flights EXCEPT ![c] =
                         IF h.panicked THEN NoFlight
                         ELSE [f EXCEPT
                                 !.calls = Append(@, [key |-> key, li |-> Head(f.todo),
                                                      seen |-> e]),
                                 !.err = h.err,
                                 !.todo = Tail(@),
                                 !.pc = IF shouldStop(h.err, h.e) THEN "release" ELSE @]]
        /\ UNCHANGED <<managerVars, idle>>

\* e.reset(); em.pool.Put(e)
FireEnd(c) ==
    LET f == flights[c]
    IN  /\ f.pc = "release"
        /\ insts' = [insts EXCEPT ![f.inst] = reset(@)]
        /\ idle' = idle \cup {f.inst}
        /\ flights' = [flights EXCEPT ![c] = NoFlight]
        /\ UNCHANGED managerVars

NextOverlap ==
    \/ \E c \in Callers, call \in OverlapCalls, id \in 1..MaxInsts :
          FireBegin(c, call[1], call[2], id)
    \/ \E c \in Callers : FireEnterQueue(c)
    \/ \E c \in Callers : FireCall(c)
    \/ \E c \in Callers : FireEnd(c)

SpecOverlap == InitOverlap /\ [][NextOverlap]_vars

(***************************************************************************)
(* Properties                                                              *)
(***************************************************************************)
\* the last call was a Fire or a FireEvent that reached dispatch
Dispatched == last.op \in {"Fire", "FireEvent"} /\ ~last.panicked

\* the name dispatch looked up: the name of the event handed to FireEvent
FiredName == last.ev0.name

\* the calls of the last dispatch made from the queue of key
CallsOf(key) == SelectSeq(last.calls, LAMBDA c : c.key = key)

\* what the listener of the i-th call of the last dispatch did
Outcome(i) == Handle(last.calls[i].key, last.calls[i].li, last.calls[i].seen)

\* item a runs before item b: higher priority first, registration order on a tie
RunsBefore(a, b) ==
    \/ a.priority > b.priority
    \/ a.priority = b.priority /\ a.reg < b.reg

\* the items of a sequence, as a set
Items(q) == {q[i] : i \in 1..Len(q)}

\* C1: a dispatch invokes the listeners registered under the fired name in
\* descending priority order, and listeners of equal priority in the order of
\* their registration; it invokes every one of them unless a listener stopped it.
C1_PriorityOrder ==
    Dispatched =>
        LET exact == CallsOf(FiredName)
        IN  /\ \A i, j \in 1..Len(exact) :
                  i < j => RunsBefore(exact[i].li, exact[j].li)
            /\ (FiredName \in DOMAIN listeners
                  /\ last.err.nil /\ ~last.ev1.aborted)
               => Items(listeners[FiredName]) = {exact[i].li : i \in 1..Len(exact)}

\* C1 witness: a listener registered second ran first, having the higher priority
C1_Witness ==
    /\ Dispatched
    /\ Len(CallsOf(FiredName)) = 2
    /\ CallsOf(FiredName)[1].li.reg = 2
    /\ CallsOf(FiredName)[2].li.reg = 1

\* the group pattern the README gives for a name: its prefix up to and
\* including the last dot, then the wildcard ("app.run" -> "app.*")
ReadmeGroup(name) == SubSeq(name, 1, LastIndexByte(name, ".") + 1) \o Wildcard

\* C2: when listeners are registered on "a.*", firing "a.r" invokes them (unless
\* an exact-name listener stopped the dispatch), after the exact-name listeners
\* and before the listeners of the wildcard.
C2_GroupListenersInvoked ==
    (/\ Dispatched
     /\ FiredName = NameAR
     /\ ReadmeGroup(NameAR) \in DOMAIN listeners
     /\ \A i \in 1..Len(last.calls) :
           last.calls[i].key = NameAR
             => Outcome(i).err.nil /\ ~Outcome(i).e.aborted)
    => /\ CallsOf(ReadmeGroup(NameAR)) # <<>>
       /\ \A i, j \in 1..Len(last.calls) :
             ((last.calls[i].key = NameAR
                  /\ last.calls[j].key = ReadmeGroup(NameAR))
              \/ (last.calls[i].key = ReadmeGroup(NameAR)
                  /\ last.calls[j].key = Wildcard))
               => i < j

\* C3: a listener can be registered under the bare wildcard name "*".
C3_WildcardRegistered ==
    (last.op = "On" /\ last.name = Wildcard /\ last.li.kind # "nil")
    => ~last.panicked /\ Wildcard \in DOMAIN listeners

\* C4: when a listener returns an error, no further listener is invoked (its call
\* is the last call of the dispatch) and that error is what the fire returns.
C4_ErrorStops ==
    Dispatched =>
        \A i \in 1..Len(last.calls) :
            ~Outcome(i).err.nil
              => i = Len(last.calls) /\ last.err = Outcome(i).err

\* C4 witness: a listener returned an error while another listener of its queue
\* was still to run
C4_Witness ==
    /\ Dispatched
    /\ Len(last.calls) = 1
    /\ ~last.err.nil
    /\ FiredName \in DOMAIN listeners
    /\ Len(listeners[FiredName]) >= 2

\* C5: when a listener leaves the event aborted and returns nil, no further
\* listener is invoked and the fire returns nil.
C5_AbortStops ==
    Dispatched =>
        \A i \in 1..Len(last.calls) :
            (Outcome(i).err.nil /\ Outcome(i).e.aborted)
              => i = Len(last.calls) /\ last.err.nil

\* C5 witness: a listener aborted the event while a listener of the group queue
\* was still to run
C5_Witness ==
    /\ Dispatched
    /\ Len(last.calls) = 1
    /\ last.calls[1].li.kind = "abort"
    /\ hasGroup(FiredName)
    /\ groupName(FiredName) \in DOMAIN listeners

\* C6: the scratch event a Fire hands to its listeners carries the name and the
\* payload of that Fire and a false abort flag, whether the instance is new or
\* was used by an earlier Fire; the first listener receives it in that state.
C6_ScratchEventClean ==
    (last.op = "Fire" /\ last.src \in {"new", "pool"})
    => /\ last.ev0 = [name |-> TrimSpace(last.name), data |-> last.args,
                      aborted |-> FALSE]
       /\ last.calls # <<>> => last.calls[1].seen = last.ev0

\* C6 witness: a Fire without payload ran listeners on an instance taken from
\* the pool, where an earlier Fire had put it
C6_Witness ==
    /\ last.op = "Fire"
    /\ last.src = "pool"
    /\ last.args = {}
    /\ last.calls # <<>>
    /\ last.ev1.data # {}

\* C7: after ClearListeners(x), HasListeners(x) is false and Fire(x) invokes no
\* listener.
C7_ClearedNameInvokesNone ==
    last.op = "ClearListeners"
    => /\ ~HasListeners(listenedNames, last.name)
       /\ \A pick \in Picks(pool) :
             Fire(listeners, events, pool, pick, last.name, {}).calls = <<>>

\* the listener tables are left as they were by the step
TablesUnchanged == listeners' = listeners /\ listenedNames' = listenedNames

\* C8 as stated: an On call whose name, as passed, fails the pattern, or whose
\* listener is nil, panics and leaves listeners and listenedNames unchanged.
C8_RawNameRejected ==
    [][(last'.op = "On"
          /\ (~MatchString(last'.name) \/ last'.li.kind = "nil"))
       => (last'.panicked /\ TablesUnchanged)]_vars

\* C8: an On call whose name, once its leading and trailing white space is
\* trimmed, is empty or fails the pattern, or whose listener is nil, panics and
\* leaves listeners and listenedNames unchanged.
C8_FailedOnStoresNothing ==
    [][(last'.op = "On"
          /\ (\/ TrimSpace(last'.name) = <<>>
              \/ ~MatchString(TrimSpace(last'.name))
              \/ last'.li.kind = "nil"))
       => (last'.panicked /\ TablesUnchanged)]_vars

\* C8 witness: On with a name starting with a digit has panicked while listeners
\* were registered
C8_Witness ==
    /\ last.op = "On"
    /\ last.name = NameDigit
    /\ last.panicked
    /\ listeners # <<>>

\* C9: a Fire of a name of the catalog dispatches the stored instance, in the
\* state earlier fires left it in, and leaves it in the catalog in the state the
\* listeners leave it in; the pool is not used.
C9_CatalogInstanceFired ==
    [][(last'.op = "Fire" /\ ~last'.panicked
          /\ TrimSpace(last'.name) \in DOMAIN events)
       => (/\ last'.src = "catalog"
           /\ last'.ev0 = events[TrimSpace(last'.name)]
           /\ last'.calls # <<>> => last'.calls[1].seen = last'.ev0
           /\ TrimSpace(last'.name) \in DOMAIN events'
           /\ events'[TrimSpace(last'.name)] = last'.ev1
           /\ pool' = pool)]_vars

\* C9 witness: a Fire of a catalog name started from the payload entry and the
\* abort flag that the listeners of an earlier Fire had written
C9_Witness ==
    /\ last.op = "Fire"
    /\ last.src = "catalog"
    /\ last.ev0.data = {<<"r", "OK">>}
    /\ last.ev0.aborted
    /\ Len(last.calls) = 1

\* no listener is registered for name at any level: not under the name, not
\* under a group pattern derived from it, not under the wildcard
NoListenersFor(name) ==
    /\ name \notin DOMAIN listeners
    /\ ReadmeGroup(name) \notin DOMAIN listeners
    /\ groupName(name) \notin DOMAIN listeners
    /\ Wildcard \notin DOMAIN listeners

\* C10: a fire of a name without listeners at any level returns nil, invokes no
\* listener and leaves listeners, listenedNames and the catalog unchanged.
C10_NoListenersNoEffect ==
    [][(last'.op \in {"Fire", "FireEvent"} /\ ~last'.panicked
          /\ NoListenersFor(last'.ev0.name))
       => (/\ last'.err.nil
           /\ last'.calls = <<>>
           /\ TablesUnchanged
           /\ events' = events)]_vars

\* C10 witness: a name of the catalog was fired while no listener was registered
C10_Witness ==
    /\ Dispatched
    /\ last.src = "catalog"
    /\ NoListenersFor(FiredName)
    /\ last.calls = <<>>

\* the last call was a Fire or a MustFire
Fired == last.op \in {"Fire", "MustFire"}

\* C11: MustFire changes the manager exactly as Fire does with the same
\* arguments, and it panics exactly when that Fire panics or returns a non-nil
\* error; a dispatch stopped by the abort flag alone does not make it panic.
C11_MustFirePanicsOnError ==
    [][last'.op = "MustFire"
       => \E pick \in Picks(pool) :
            \E r \in {Fire(listeners, events, pool, pick, last'.name, last'.args)} :
               /\ listeners' = r.listeners
               /\ events' = r.events
               /\ pool' = r.pool
               /\ last'.calls = r.calls
               /\ last'.err = r.err
               /\ last'.ev1 = r.ev1
               /\ last'.panicked <=> (r.panicked \/ ~r.err.nil)]_vars

\* C11 witness: a MustFire whose dispatch was aborted by a listener, without an
\* error, has returned normally
C11_Witness ==
    /\ last.op = "MustFire"
    /\ last.calls # <<>>
    /\ last.ev1.aborted
    /\ last.err.nil
    /\ ~last.panicked

\* C12: a dispatch of a name that has no exact-name queue still invokes the
\* listeners registered under the group name derived from it and under the
\* wildcard.
C12_MissingQueueSkipsOnlyStep ==
    (Dispatched /\ FiredName \notin DOMAIN listeners)
    => /\ (hasGroup(FiredName) /\ groupName(FiredName) \in DOMAIN listeners)
              => CallsOf(groupName(FiredName)) # <<>>
       /\ Wildcard \in DOMAIN listeners => CallsOf(Wildcard) # <<>>

\* C13: besides the fired name and the wildcard, the only queue a dispatch
\* takes listeners from is that of the fired name cut after its last dot with
\* the wildcard appended ("a.r" consults "a.*"), and there is none when the
\* name has no dot or its only dot is its first character.
C13_GroupPatternAfterLastDot ==
    Dispatched
    => \A i \in 1..Len(last.calls) :
          \/ last.calls[i].key \in {FiredName, Wildcard}
          \/ /\ LastIndexByte(FiredName, ".") > 0
             /\ last.calls[i].key = ReadmeGroup(FiredName)

\* C14: after a Fire on a name that is not in the catalog, however the dispatch
\* ended, the scratch event is back in the pool, reset.
C14_ScratchReturnedOnEveryExit ==
    (Fired /\ last.src \in {"new", "pool"}) => ZeroEvent \in pool

\* C15: the names of listenedNames are exactly the names that have a queue in
\* listeners, whatever calls were made; ClearListeners and Clear take a name out
\* of both.
C15_TablesAgree == DOMAIN listenedNames = DOMAIN listeners

\* C15 witness: ClearListeners has removed a name that was listened while
\* another name keeps its queue
C15_Witness ==
    /\ last.op = "ClearListeners"
    /\ last.src = "removed"
    /\ last.name \notin DOMAIN listeners
    /\ listeners # <<>>

\* the callers that are inside Fire, each holding a scratch instance
InFlight == {c \in Callers : flights[c].pc # "idle"}

\* the event e carries the name and the payload of the Fire of flight f, and
\* besides them only what the listeners of the table write
OwnEvent(f, e) ==
    /\ e.name = TrimSpace(f.name)
    /\ f.args \subseteq e.data
    /\ e.data \subseteq f.args \cup {<<"r", "OK">>}

\* C17: while several Fire calls on names that are not in the catalog are under
\* way, no scratch instance is held by two of them or is in the pool while one
\* holds it, and each listener receives the event with the name and the payload
\* of the Fire that called it.
C17_ScratchNotShared ==
    /\ \A c, d \in InFlight : c # d => flights[c].inst # flights[d].inst
    /\ \A c \in InFlight :
          /\ flights[c].inst \notin idle
          /\ OwnEvent(flights[c], insts[flights[c].inst])
          /\ \A i \in 1..Len(flights[c].calls) :
                OwnEvent(flights[c], flights[c].calls[i].seen)

\* C17 witness: two fires with different names and payloads are under way, one
\* of them on an instance taken from the pool, and a listener has run in each
C17_Witness ==
    /\ InFlight = Callers
    /\ flights[1].name # flights[2].name
    /\ flights[1].args # flights[2].args
    /\ flights[1].src = "pool"
    /\ flights[1].calls # <<>>
    /\ flights[2].calls # <<>>

\* the last call was refused for its name
NameRefused == last.panicked /\ last.why = "name"

\* what On, AddEvent and Fire do with a name they accept, key being the string
\* the name is expected to be stored and looked up under
StoredUnder(key) ==
    /\ (last.op = "On" /\ ~last.panicked)
          => (key \in DOMAIN listeners /\ last.li \in Items(listeners[key]))
    /\ (last.op = "AddEvent" /\ ~last.panicked)
          => (key \in DOMAIN events /\ events[key] = last.ev0)
    /\ (Fired /\ last.src \in {"new", "pool"}) => FiredName = key
    /\ (Fired /\ last.src = "catalog") => key \in DOMAIN events

\* C16 as stated: On, AddEvent and Fire refuse a name exactly when the name as
\* passed fails the pattern, and store or look up an accepted name under the
\* string that was passed.
C16_NameAsPassed ==
    last.op \in {"On", "AddEvent", "Fire", "MustFire"}
    => /\ NameRefused <=> ~MatchString(last.name)
       /\ ~NameRefused => StoredUnder(last.name)

\* C16: On, AddEvent and Fire refuse a name exactly when the name, once its
\* leading and trailing white space is trimmed, is empty or fails the pattern,
\* and store or look up an accepted name under the trimmed string.
C16_TrimmedNameAccepted ==
    last.op \in {"On", "AddEvent", "Fire", "MustFire"}
    => /\ NameRefused <=> ~MatchString(TrimSpace(last.name))
       /\ ~NameRefused => StoredUnder(TrimSpace(last.name))

\* C16 witness: a Fire of " a.r" has invoked the listeners registered under
\* "a.r"
C16_Witness ==
    /\ last.op = "Fire"
    /\ last.name = NameBlankAR
    /\ ~last.panicked
    /\ CallsOf(NameAR) # <<>>

\* the last call dispatched an event whose abort flag was already set, under a
\* name that has an exact-name queue
PreAborted ==
    /\ last.op \in {"Fire", "MustFire", "FireEvent"}
    /\ last.why # "name"
    /\ last.ev0.aborted
    /\ FiredName \in DOMAIN listeners

\* C18 as stated: a dispatch of an event whose abort flag is already set invokes
\* exactly one listener, the first of the sorted exact-name queue.
C18_PreAbortedRunsExactlyOne ==
    PreAborted
    => /\ Len(last.calls) = 1
       /\ last.calls[1].key = FiredName
       /\ last.calls[1].li = Head(listeners[FiredName])

\* C18: a dispatch of an event whose abort flag is already set still invokes
\* the first listener of the sorted exact-name queue, which sees the flag set;
\* a second listener is invoked only if the first one cleared the flag and
\* returned nil.
C18_PreAbortedRunsFirst ==
    PreAborted
    => /\ Len(last.calls) >= 1
       /\ last.calls[1].key = FiredName
       /\ last.calls[1].li = Head(listeners[FiredName])
       /\ last.calls[1].seen.aborted
       /\ Len(last.calls) > 1
             => (~last.calls[2].seen.aborted /\ Outcome(1).err.nil)

\* C18 witness: an event with its abort flag set was dispatched to a queue of
\* two listeners; the first ran, returned nil, and the second did not run
C18_Witness ==
    /\ PreAborted
    /\ Len(listeners[FiredName]) = 2
    /\ Len(last.calls) = 1
    /\ last.err.nil
    /\ ~last.panicked

\* C19: a Fire of a name of the catalog does not apply its payload arguments:
\* the listeners receive the stored event with the name, payload and abort flag
\* it had before the call, and the pool is left as it was.
C19_CatalogFireIgnoresArgs ==
    [][(last'.op \in {"Fire", "MustFire"} /\ last'.why # "name"
          /\ goodName(last'.name) \in DOMAIN events)
       => (/\ last'.ev0 = events[goodName(last'.name)]
           /\ last'.calls # <<>> => last'.calls[1].seen = events[goodName(last'.name)]
           /\ pool' = pool)]_vars

\* C19 witness: a Fire with a payload on a catalog name has run listeners on the
\* stored event, whose payload was empty
C19_Witness ==
    /\ last.op = "Fire"
    /\ last.src = "catalog"
    /\ last.args # {}
    /\ last.ev0.data = {}
    /\ last.calls # <<>>

\* the registration ranks of the items of a queue
Regs(q) == {q[i].reg : i \in 1..Len(q)}

\* C20: for every name of listenedNames the count is the number of items of the
\* name's queue, which are the items of the On calls made for the name since it
\* was last cleared, one each; the count is at least 1.
C20_CountIsQueueLength ==
    \A name \in DOMAIN listenedNames :
        /\ name \in DOMAIN listeners
        /\ listenedNames[name] = Len(listeners[name])
        /\ Regs(listeners[name]) = 1..listenedNames[name]
        /\ listenedNames[name] >= 1

\* C20 witness: two On calls were made for a name, the second one last
C20_Witness ==
    /\ last.op = "On"
    /\ ~last.panicked
    /\ last.li.reg = 2
    /\ listenedNames[TrimSpace(last.name)] = 2

====
